---- MODULE Spec2Model ----
(***************************************************************************)
(* LoopHeroOptimizer: the grid/tile model with incremental adjacency       *)
(* counters, the river cursor, the scoring functions, the heuristic seed   *)
(* and the branch-and-bound search of src/main.c (first program, lines     *)
(* 1-754), with the counting helpers of the earlier variant                *)
(* (src/unnamed/part_000) where a claim compares against them.             *)
(*                                                                         *)
(* Spec        the three mutation operations called in any order           *)
(* SearchSpec  recurse_grid run step by step from main's empty grid        *)
(***************************************************************************)
EXTENDS Integers, Sequences, FiniteSets, TLC

VARIABLES
  numRows, numCols,                 \* static int numRows, numCols
  landChoice, landValue, maxTileVal,\* set once by init_landscape
  g,                                \* Spec: the grid the caller mutates
  pre,                              \* Spec: history, the grid before the last call
                                    \*   (before the placement when the last two
                                    \*   calls were a placement and its removal)
  lastOp,                           \* Spec: history, the last call and its result
  nOps,                             \* Spec: number of calls made so far
  placed,                           \* Spec: history, the River tiles on the grid in
                                    \*   the order in which they were placed
  bestVal, initial_recursion,       \* SearchSpec: the statics of recurse_grid
  stack,                            \* SearchSpec: the activation records
  run,                              \* SearchSpec: the program runs still to make, the
                                    \*   status of the current one and, as history,
                                    \*   how many of its calls took the early exit
                                    \*   and the first full grid of the best score
  results,                          \* SearchSpec: what main saw after each run
  prevBest                          \* SearchSpec: history, bestVal before the last write

vars == <<numRows, numCols, landChoice, landValue, maxTileVal, g, pre, lastOp, nOps, placed,
          bestVal, initial_recursion, stack, run, results, prevBest>>

landVars == <<numRows, numCols, landChoice, landValue, maxTileVal>>
apiVars == <<g, pre, lastOp, nOps, placed>>
searchVars == <<bestVal, initial_recursion, stack, run, results, prevBest>>

----------------------------------------------------------------------------
(* Bounds of the model *)

\* number of calls of the mutation operations in one behaviour of Spec
MaxOps == 4

\* grid sizes of Spec: every shape up to 3x3 that has a corner, an edge cell,
\* an interior cell, a single row or a single column
GridSizes == {<<1, 1>>, <<1, 3>>, <<2, 2>>, <<2, 3>>, <<3, 3>>}

----------------------------------------------------------------------------
(* enum Terrain, enum Landscape, enum Values *)

LHO_EMPTY == -1
LHO_RIVER == 0
LHO_LANDSCAPE == 1

LHO_MEADOW == 0
LHO_THICKET == 1
LHO_MOUNTAIN == 2
LHO_SUBURB == 3

LHO_MEADOWVAL == 3
LHO_THICKETVAL == 2
LHO_MOUNTAINVAL == 6
LHO_SUBURBVAL == 1

Landscapes == {LHO_MEADOW, LHO_THICKET, LHO_MOUNTAIN, LHO_SUBURB}

\* init_landscape: [landChoice, landValue, maxTileVal] for a choice
init_landscape(choice) ==
  CASE choice = 0 -> [landChoice |-> LHO_MEADOW, landValue |-> LHO_MEADOWVAL,
                      maxTileVal |-> 3 * LHO_MEADOWVAL]
    [] choice = 1 -> [landChoice |-> LHO_THICKET, landValue |-> LHO_THICKETVAL,
                      maxTileVal |-> 3 * LHO_THICKETVAL]
    [] choice = 2 -> [landChoice |-> LHO_MOUNTAIN, landValue |-> LHO_MOUNTAINVAL,
                      maxTileVal |-> 4 * LHO_MOUNTAINVAL]
    [] choice = 3 -> [landChoice |-> LHO_SUBURB, landValue |-> LHO_SUBURBVAL,
                      maxTileVal |-> 3 * LHO_SUBURBVAL]

----------------------------------------------------------------------------
(* C integer arithmetic: / truncates toward zero, % takes the sign of the   *)
(* dividend; abs                                                            *)

CDiv(a, b) == IF a >= 0 THEN a \div b ELSE -((-a) \div b)
CMod(a, b) == a - b * CDiv(a, b)
abs(x) == IF x < 0 THEN -x ELSE x

get_row_idx(linIndex) == CDiv(linIndex, numCols)
get_col_idx(linIndex) == CMod(linIndex, numCols)

Rows == 0 .. numRows - 1
Cols == 0 .. numCols - 1
Indices == 0 .. numRows * numCols - 1

----------------------------------------------------------------------------
(* struct Tile, struct River, struct Grid *)

EmptyTile == [type |-> LHO_EMPTY, numAdjRivers |-> 0, numAdjLands |-> 0]

allocate_grid ==
  [grid |-> [i \in Rows |-> [j \in Cols |-> EmptyTile]],
   river |-> [headLoc |-> -1, oldHeadLoc |-> -1, newRiver |-> TRUE],
   full |-> FALSE,
   numFilledTiles |-> 0,
   maxTiles |-> numRows * numCols,
   val |-> -1]

\* copy_grid(dupGrid, inGrid): the value of *dupGrid afterwards
copy_grid(dupGrid, inGrid) ==
  [dupGrid EXCEPT !.numFilledTiles = inGrid.numFilledTiles,
                  !.maxTiles = inGrid.maxTiles,
                  !.full = inGrid.full,
                  !.val = inGrid.val,
                  !.river = inGrid.river,
                  !.grid = [i \in Rows |-> [j \in Cols |-> inGrid.grid[i][j]]]]

\* chk_loc: TRUE when linIndex is inside the array and the tile is empty
chk_loc(linIndex, grid) ==
  IF linIndex < 0 \/ linIndex > numRows * numCols - 1
  THEN FALSE
  ELSE IF grid.grid[get_row_idx(linIndex)][get_col_idx(linIndex)].type > LHO_EMPTY
       THEN FALSE
       ELSE TRUE

\* BumpRivers without the update of the tile to the right
BumpRivers_NoRight(tiles, i, j, d) ==
  LET up == IF i > 0 THEN [tiles EXCEPT ![i - 1][j].numAdjRivers = @ + d] ELSE tiles
      down == IF i < numRows - 1 THEN [up EXCEPT ![i + 1][j].numAdjRivers = @ + d] ELSE up
  IN IF j > 0 THEN [down EXCEPT ![i][j - 1].numAdjRivers = @ + d] ELSE down

\* the four guarded neighbour updates of add_river (d = 1) and of
\* remove_terrain (d = -1) on the tiles around (i, j)
BumpRivers(tiles, i, j, d) ==
  LET up == IF i > 0 THEN [tiles EXCEPT ![i - 1][j].numAdjRivers = @ + d] ELSE tiles
      down == IF i < numRows - 1 THEN [up EXCEPT ![i + 1][j].numAdjRivers = @ + d] ELSE up
      left == IF j > 0 THEN [down EXCEPT ![i][j - 1].numAdjRivers = @ + d] ELSE down
  IN IF j < numCols - 1 THEN [left EXCEPT ![i][j + 1].numAdjRivers = @ + d] ELSE left

\* BumpLands that only ever counts up: the landscape branch of
\* remove_terrain copied from add_land with ++ left in place
BumpLands_OnlyUp(tiles, i, j, d) ==
  LET up == IF i > 0 THEN [tiles EXCEPT ![i - 1][j].numAdjLands = @ + 1] ELSE tiles
      down == IF i < numRows - 1 THEN [up EXCEPT ![i + 1][j].numAdjLands = @ + 1] ELSE up
      left == IF j > 0 THEN [down EXCEPT ![i][j - 1].numAdjLands = @ + 1] ELSE down
  IN IF j < numCols - 1 THEN [left EXCEPT ![i][j + 1].numAdjLands = @ + 1] ELSE left

\* BumpLands with the sign of the step wrong: add_land counts down
BumpLands_WrongSign(tiles, i, j, d) ==
  LET up == IF i > 0 THEN [tiles EXCEPT ![i - 1][j].numAdjLands = @ - d] ELSE tiles
      down == IF i < numRows - 1 THEN [up EXCEPT ![i + 1][j].numAdjLands = @ - d] ELSE up
      left == IF j > 0 THEN [down EXCEPT ![i][j - 1].numAdjLands = @ - d] ELSE down
  IN IF j < numCols - 1 THEN [left EXCEPT ![i][j + 1].numAdjLands = @ - d] ELSE left

\* the same for add_land and the landscape branch of remove_terrain
BumpLands(tiles, i, j, d) ==
  LET up == IF i > 0 THEN [tiles EXCEPT ![i - 1][j].numAdjLands = @ + d] ELSE tiles
      down == IF i < numRows - 1 THEN [up EXCEPT ![i + 1][j].numAdjLands = @ + d] ELSE up
      left == IF j > 0 THEN [down EXCEPT ![i][j - 1].numAdjLands = @ + d] ELSE down
  IN IF j < numCols - 1 THEN [left EXCEPT ![i][j + 1].numAdjLands = @ + d] ELSE left

\* numFilledTiles++ and the full flag, as add_land and add_river do it
CountFilled(grid) ==
  [grid EXCEPT !.numFilledTiles = @ + 1,
               !.full = IF grid.numFilledTiles + 1 = grid.maxTiles THEN TRUE ELSE @]

\* add_land: [ok, grid]
add_land(linIndex, grid) ==
  IF chk_loc(linIndex, grid)
  THEN LET i == get_row_idx(linIndex)
           j == get_col_idx(linIndex)
           typed == [grid EXCEPT !.grid[i][j].type = LHO_LANDSCAPE]
           counted == CountFilled(typed)
       IN [ok |-> TRUE,
           grid |-> [counted EXCEPT !.grid = BumpLands(counted.grid, i, j, 1)]]
  ELSE [ok |-> FALSE, grid |-> grid]

\* OnBorder that takes every cell for a border cell
OnBorder_Anywhere(r, c) == TRUE

\* the border test of add_river
OnBorder(r, c) == r = 0 \/ c = 0 \/ r = numRows - 1 \/ c = numCols - 1

\* NotNearHead with the guard curLoc > 0 for curLoc > -1: a head on cell 0
\* counts as no head
NotNearHead_HeadZero(r, c, curLoc) ==
  LET cr == get_row_idx(curLoc)
      cc == get_col_idx(curLoc)
  IN /\ ~ ( \/ (abs(r - cr) = 1 /\ abs(c - cc) = 0)
            \/ (abs(r - cr) = 0 /\ abs(c - cc) = 1) )
     /\ curLoc > 0

\* the connectivity test of add_river: TRUE when the call is refused
NotNearHead(r, c, curLoc) ==
  LET cr == get_row_idx(curLoc)
      cc == get_col_idx(curLoc)
  IN /\ ~ ( \/ (abs(r - cr) = 1 /\ abs(c - cc) = 0)
            \/ (abs(r - cr) = 0 /\ abs(c - cc) = 1) )
     /\ curLoc > -1

\* add_river: [ok, grid]
add_river(linIndex, grid) ==
  LET r == get_row_idx(linIndex)
      c == get_col_idx(linIndex)
  IN IF grid.river.newRiver /\ ~OnBorder(r, c)
     THEN [ok |-> FALSE, grid |-> grid]
     ELSE LET started == [grid EXCEPT !.river.newRiver = FALSE]
              validLoc == chk_loc(linIndex, started)
              curLoc == started.river.headLoc
          IN IF NotNearHead(r, c, curLoc)
             THEN [ok |-> FALSE, grid |-> started]
             ELSE IF validLoc
                  THEN LET moved == [started EXCEPT !.river.oldHeadLoc = started.river.headLoc,
                                                    !.river.headLoc = linIndex,
                                                    !.grid[r][c].type = LHO_RIVER]
                           counted == CountFilled(moved)
                       IN [ok |-> TRUE,
                           grid |-> [counted EXCEPT !.grid = BumpRivers(counted.grid, r, c, 1)]]
                  ELSE [ok |-> FALSE, grid |-> started]

\* HeadAfterRemove that lets a new river start after every head removal
HeadAfterRemove_AlwaysFresh(river, linIndex) ==
  IF river.headLoc = linIndex
  THEN [river EXCEPT !.headLoc = river.oldHeadLoc, !.newRiver = TRUE]
  ELSE river

\* the river cursor after remove_terrain(linIndex)
HeadAfterRemove(river, linIndex) ==
  IF river.headLoc = linIndex
  THEN [river EXCEPT !.headLoc = river.oldHeadLoc,
                     !.newRiver = IF river.oldHeadLoc = -1 THEN TRUE ELSE @]
  ELSE river

\* remove_terrain without the test of lines 334-336: numFilledTiles is
\* counted down for an Empty tile too
remove_terrain_AlwaysCounts(linIndex, grid) ==
  LET i == get_row_idx(linIndex)
      j == get_col_idx(linIndex)
      oldType == grid.grid[i][j].type
      emptied == [grid EXCEPT !.grid[i][j].type = LHO_EMPTY,
                              !.numFilledTiles = @ - 1,
                              !.river = HeadAfterRemove(grid.river, linIndex)]
  IN IF oldType = LHO_RIVER
     THEN [emptied EXCEPT !.grid = BumpRivers(emptied.grid, i, j, -1)]
     ELSE IF oldType = LHO_LANDSCAPE
          THEN [emptied EXCEPT !.grid = BumpLands(emptied.grid, i, j, -1)]
          ELSE emptied

\* remove_terrain: the grid afterwards (linIndex inside the array)
remove_terrain(linIndex, grid) ==
  LET i == get_row_idx(linIndex)
      j == get_col_idx(linIndex)
      oldType == grid.grid[i][j].type
      emptied == [grid EXCEPT !.grid[i][j].type = LHO_EMPTY,
                              !.numFilledTiles = IF oldType > LHO_EMPTY THEN @ - 1 ELSE @,
                              !.river = HeadAfterRemove(grid.river, linIndex)]
  IN IF oldType = LHO_RIVER
     THEN [emptied EXCEPT !.grid = BumpRivers(emptied.grid, i, j, -1)]
     ELSE IF oldType = LHO_LANDSCAPE
          THEN [emptied EXCEPT !.grid = BumpLands(emptied.grid, i, j, -1)]
          ELSE emptied

----------------------------------------------------------------------------
(* Scoring: val_calc and the three per-landscape functions, which read the  *)
(* maintained counters of each tile                                         *)

\* the double loop "for i, for j: val += ..." over the per-tile amounts,
\* listed in row-major order
RECURSIVE SumSeq(_)
SumSeq(s) == IF s = <<>> THEN 0 ELSE Head(s) + SumSeq(Tail(s))

SumCells(contrib(_, _), n) ==
  SumSeq([m \in 1 .. n |-> contrib((m - 1) \div numCols, (m - 1) % numCols)])

\* val_calc_meadow_thicket without the branch for a tile with no river
\* next to it
val_calc_meadow_thicket_NoBranch(grid) ==
  LET contrib(i, j) ==
        IF grid.grid[i][j].type = LHO_LANDSCAPE
        THEN (landValue * 2) * grid.grid[i][j].numAdjRivers
        ELSE 0
  IN SumCells(contrib, numRows * numCols)

val_calc_meadow_thicket(grid) ==
  LET contrib(i, j) ==
        IF grid.grid[i][j].type = LHO_LANDSCAPE
        THEN LET numRivers == grid.grid[i][j].numAdjRivers
             IN IF numRivers = 0 THEN landValue ELSE (landValue * 2) * numRivers
        ELSE 0
  IN SumCells(contrib, numRows * numCols)

\* val_calc_suburb without the case of a tile with four suburbs around it
val_calc_suburb_NoBlock(grid) ==
  LET contrib(i, j) ==
        IF grid.grid[i][j].type = LHO_LANDSCAPE
        THEN LET numRivers == grid.grid[i][j].numAdjRivers
             IN IF numRivers # 0 THEN (landValue * 2) * numRivers
                ELSE landValue
        ELSE 0
  IN SumCells(contrib, numRows * numCols)

val_calc_suburb(grid) ==
  LET contrib(i, j) ==
        IF grid.grid[i][j].type = LHO_LANDSCAPE
        THEN LET numRivers == grid.grid[i][j].numAdjRivers
                 numSuburbs == grid.grid[i][j].numAdjLands
             IN IF numSuburbs = 4 THEN 2 * landValue
                ELSE IF numRivers # 0 THEN (landValue * 2) * numRivers
                ELSE landValue
        ELSE 0
  IN SumCells(contrib, numRows * numCols)

val_calc_mountain(grid) ==
  LET contrib(i, j) ==
        IF grid.grid[i][j].type = LHO_LANDSCAPE
        THEN LET numRivers == grid.grid[i][j].numAdjRivers
                 numMountains == grid.grid[i][j].numAdjLands
             IN numMountains * landValue + numMountains * numRivers * landValue
        ELSE 0
  IN SumCells(contrib, numRows * numCols)

val_calc(grid) ==
  CASE landChoice \in {LHO_MEADOW, LHO_THICKET} -> val_calc_meadow_thicket(grid)
    [] landChoice = LHO_SUBURB -> val_calc_suburb(grid)
    [] landChoice = LHO_MOUNTAIN -> val_calc_mountain(grid)

----------------------------------------------------------------------------
(* The earlier variant (src/unnamed/part_000) keeps no counters: it counts  *)
(* the neighbours from the tile kinds on every scoring call                 *)

count_adj_rivers(i, j, grid) ==
    (IF i > 0 /\ grid.grid[i - 1][j].type = LHO_RIVER THEN 1 ELSE 0)
  + (IF i < numRows - 1 /\ grid.grid[i + 1][j].type = LHO_RIVER THEN 1 ELSE 0)
  + (IF j > 0 /\ grid.grid[i][j - 1].type = LHO_RIVER THEN 1 ELSE 0)
  + (IF j < numCols - 1 /\ grid.grid[i][j + 1].type = LHO_RIVER THEN 1 ELSE 0)

count_adj_lands(i, j, grid) ==
    (IF i > 0 /\ grid.grid[i - 1][j].type = LHO_LANDSCAPE THEN 1 ELSE 0)
  + (IF i < numRows - 1 /\ grid.grid[i + 1][j].type = LHO_LANDSCAPE THEN 1 ELSE 0)
  + (IF j > 0 /\ grid.grid[i][j - 1].type = LHO_LANDSCAPE THEN 1 ELSE 0)
  + (IF j < numCols - 1 /\ grid.grid[i][j + 1].type = LHO_LANDSCAPE THEN 1 ELSE 0)

recount_meadow_thicket(grid) ==
  LET contrib(i, j) ==
        IF grid.grid[i][j].type = LHO_LANDSCAPE
        THEN LET numRivers == count_adj_rivers(i, j, grid)
             IN IF numRivers = 0 THEN landValue ELSE (landValue * 2) * numRivers
        ELSE 0
  IN SumCells(contrib, numRows * numCols)

recount_suburb(grid) ==
  LET contrib(i, j) ==
        IF grid.grid[i][j].type = LHO_LANDSCAPE
        THEN LET numRivers == count_adj_rivers(i, j, grid)
                 numSuburbs == count_adj_lands(i, j, grid)
             IN IF numSuburbs = 4 THEN 2 * landValue
                ELSE IF numRivers # 0 THEN (landValue * 2) * numRivers
                ELSE landValue
        ELSE 0
  IN SumCells(contrib, numRows * numCols)

recount_mountain(grid) ==
  LET contrib(i, j) ==
        IF grid.grid[i][j].type = LHO_LANDSCAPE
        THEN LET numRivers == count_adj_rivers(i, j, grid)
                 numMountains == count_adj_lands(i, j, grid)
             IN numMountains * landValue + numMountains * numRivers * landValue
        ELSE 0
  IN SumCells(contrib, numRows * numCols)

\* val_calc of the earlier variant
recount_val_calc(grid) ==
  CASE landChoice \in {LHO_MEADOW, LHO_THICKET} -> recount_meadow_thicket(grid)
    [] landChoice = LHO_SUBURB -> recount_suburb(grid)
    [] landChoice = LHO_MOUNTAIN -> recount_mountain(grid)

----------------------------------------------------------------------------
(* Spec: add_land, add_river and remove_terrain called in any order on one  *)
(* grid, from allocate_grid's empty grid                                    *)

NoOp == [op |-> "none", idx |-> -1, ok |-> FALSE]

\* history of a search run: the score and the tiles of the first full grid,
\* among those handed to recurse_grid so far, that scored more than every
\* full grid handed to it before; none yet
NoFirst == [val |-> -1, tiles |-> <<>>]

InitLandChoice ==
  \E choice \in Landscapes :
    LET l == init_landscape(choice)
    IN /\ landChoice = l.landChoice
       /\ landValue = l.landValue
       /\ maxTileVal = l.maxTileVal

InitGridSizes == \E d \in GridSizes : numRows = d[1] /\ numCols = d[2]

InitApiIdle ==
  /\ g = allocate_grid
  /\ pre = allocate_grid
  /\ lastOp = NoOp
  /\ nOps = 0
  /\ placed = <<>>

InitSearchIdle ==
  /\ bestVal = -1
  /\ initial_recursion = TRUE
  /\ stack = <<>>
  /\ run = [todo |-> <<>>, status |-> "idle", pruned |-> 0, first |-> NoFirst]
  /\ results = <<>>
  /\ prevBest = -1

Init ==
  /\ InitGridSizes
  /\ InitLandChoice
  /\ InitApiIdle
  /\ InitSearchIdle

AddLand(i) ==
  /\ nOps < MaxOps
  /\ LET r == add_land(i, g)
     IN /\ g' = r.grid
        /\ lastOp' = [op |-> "land", idx |-> i, ok |-> r.ok]
  /\ pre' = g
  /\ nOps' = nOps + 1
  /\ placed' = placed
  /\ UNCHANGED <<landVars, searchVars>>

AddRiver(i) ==
  /\ nOps < MaxOps
  /\ LET r == add_river(i, g)
     IN /\ g' = r.grid
        /\ lastOp' = [op |-> "river", idx |-> i, ok |-> r.ok]
        /\ placed' = IF r.ok THEN Append(placed, i) ELSE placed
  /\ pre' = g
  /\ nOps' = nOps + 1
  /\ UNCHANGED <<landVars, searchVars>>

\* the history keeps the grid from before a placement when this call removes
\* the tile that the call just before it placed
IsUndo(i) == lastOp.ok /\ lastOp.idx = i /\ lastOp.op \in {"land", "river"}

RemoveTerrain(i) ==
  /\ nOps < MaxOps
  /\ g' = remove_terrain(i, g)
  /\ lastOp' = [op |-> IF IsUndo(i) THEN "undo_" \o lastOp.op ELSE "remove",
                idx |-> i, ok |-> TRUE]
  /\ pre' = IF IsUndo(i) THEN pre ELSE g
  /\ nOps' = nOps + 1
  /\ placed' = SelectSeq(placed, LAMBDA x : x # i)
  /\ UNCHANGED <<landVars, searchVars>>

Next ==
  \E i \in Indices :
    \/ AddLand(i)
    \/ AddRiver(i)
    \/ RemoveTerrain(i)

Spec == Init /\ [][Next]_vars

\* RiverSpec: only add_river calls that are accepted, and remove_terrain
RiverNext ==
  \E i \in Indices :
    \/ AddRiver(i) /\ lastOp'.ok
    \/ RemoveTerrain(i)

RiverSpec == Init /\ [][RiverNext]_vars

\* HeadSpec: accepted add_river calls, then remove_terrain of the river head
\* any number of times
HeadNext ==
  \E i \in Indices :
    \/ lastOp.op \in {"none", "river"} /\ AddRiver(i) /\ lastOp'.ok
    \/ i = g.river.headLoc /\ RemoveTerrain(i)

HeadSpec == Init /\ [][HeadNext]_vars

\* FillSpec: add_land and add_river called in any order with no bound on
\* the number of calls and no removal, so that the grid is filled up; the
\* history of the calls is not kept
FillSizes == {<<1, 1>>, <<1, 3>>, <<2, 2>>, <<2, 3>>, <<3, 3>>}

FillLand(i) ==
  /\ g' = add_land(i, g).grid
  /\ UNCHANGED <<pre, lastOp, nOps, placed, landVars, searchVars>>

FillRiver(i) ==
  /\ g' = add_river(i, g).grid
  /\ UNCHANGED <<pre, lastOp, nOps, placed, landVars, searchVars>>

FillInit ==
  /\ \E d \in FillSizes : numRows = d[1] /\ numCols = d[2]
  /\ InitLandChoice
  /\ InitApiIdle
  /\ InitSearchIdle

FillNext ==
  \E i \in Indices :
    \/ FillLand(i)
    \/ FillRiver(i)

FillSpec == FillInit /\ [][FillNext]_vars

----------------------------------------------------------------------------
(* RangeSpec: the same calls, and calls with the two indices next to the    *)
(* array, -1 and numRows * numCols.  chk_loc refuses them before any tile   *)
(* is touched, so add_land and add_river run as written.  remove_terrain    *)
(* has no range test: it reads and writes grid->grid[idx[0]][idx[1]]        *)
(* outside the array, which is undefined behaviour.  The process is killed, *)
(* or it goes on with some value read as the old type, the write of         *)
(* LHO_EMPTY and the counter updates that fall outside the array lost.      *)

OutsideIndices == {-1, numRows * numCols}

\* what the read outside the array may give: each Terrain value, and one
\* value above LHO_EMPTY that is no Terrain
OutsideReads == {LHO_EMPTY, LHO_RIVER, LHO_LANDSCAPE, LHO_LANDSCAPE + 1}

\* the four guarded decrements of remove_terrain around (i, j) on the
\* counter named field; a target outside the array is skipped
DecrementAround(tiles, i, j, field) ==
  LET dec(t, a, b) == IF a \in Rows /\ b \in Cols
                      THEN [t EXCEPT ![a][b][field] = @ - 1]
                      ELSE t
      up == IF i > 0 THEN dec(tiles, i - 1, j) ELSE tiles
      down == IF i < numRows - 1 THEN dec(up, i + 1, j) ELSE up
      left == IF j > 0 THEN dec(down, i, j - 1) ELSE down
  IN IF j < numCols - 1 THEN dec(left, i, j + 1) ELSE left

\* remove_terrain on an index outside the array, oldType the value read
remove_terrain_outside(linIndex, grid, oldType) ==
  LET i == get_row_idx(linIndex)
      j == get_col_idx(linIndex)
      emptied == [grid EXCEPT !.numFilledTiles = IF oldType > LHO_EMPTY THEN @ - 1 ELSE @,
                              !.river = HeadAfterRemove(grid.river, linIndex)]
  IN IF oldType = LHO_RIVER
     THEN [emptied EXCEPT !.grid = DecrementAround(emptied.grid, i, j, "numAdjRivers")]
     ELSE IF oldType = LHO_LANDSCAPE
          THEN [emptied EXCEPT !.grid = DecrementAround(emptied.grid, i, j, "numAdjLands")]
          ELSE emptied

RemoveTerrainOutside(i) ==
  /\ nOps < MaxOps
  /\ \/ \E oldType \in OutsideReads :
          /\ g' = remove_terrain_outside(i, g, oldType)
          /\ lastOp' = [op |-> "remove", idx |-> i, ok |-> TRUE]
     \/ /\ g' = g
        /\ lastOp' = [op |-> "killed", idx |-> i, ok |-> FALSE]
  /\ pre' = g
  /\ nOps' = nOps + 1
  /\ placed' = placed
  /\ UNCHANGED <<landVars, searchVars>>

RangeNext ==
  /\ lastOp.op # "killed"
  /\ \/ \E i \in Indices :
          \/ AddLand(i)
          \/ AddRiver(i)
          \/ RemoveTerrain(i)
     \/ \E i \in OutsideIndices :
          \/ AddLand(i)
          \/ AddRiver(i)
          \/ RemoveTerrainOutside(i)

RangeSpec == Init /\ [][RangeNext]_vars

----------------------------------------------------------------------------
(* OlderSpec: add_land, add_river and remove_terrain of the older program   *)
(* (src/main.c from line 756 on).  Its tiles have a kind and no counters,   *)
(* so the counters of the model's tile stay 0.  chk_loc is the same         *)
(* function.  add_land and add_river do arithmetic on the index and call    *)
(* chk_loc before any tile is touched, so they also run as written on the   *)
(* two indices next to the array; remove_terrain is called inside it.       *)

older_add_land(linIndex, grid) ==
  IF chk_loc(linIndex, grid)
  THEN LET i == get_row_idx(linIndex)
           j == get_col_idx(linIndex)
           n == grid.numFilledTiles + 1
       IN [ok |-> TRUE,
           grid |-> [grid EXCEPT !.grid[i][j].type = LHO_LANDSCAPE,
                                 !.numFilledTiles = n,
                                 !.full = IF n = grid.maxTiles THEN TRUE ELSE @]]
  ELSE [ok |-> FALSE, grid |-> grid]

\* add_river, lines 1104-1152: the border test of a new river, the test of
\* the river head, then the placement when chk_loc allows it; the last
\* statement is "return true" whether or not the tile was placed
older_add_river(linIndex, grid) ==
  LET i == get_row_idx(linIndex)
      j == get_col_idx(linIndex)
      started == IF grid.river.newRiver THEN OnBorder(i, j) ELSE TRUE
      curLoc == grid.river.headLoc
      near == ~NotNearHead(i, j, curLoc)
      validLoc == chk_loc(linIndex, grid)
      afterStart == [grid EXCEPT !.river.newRiver = FALSE]
      n == grid.numFilledTiles + 1
  IN IF ~started THEN [ok |-> FALSE, grid |-> grid]
     ELSE IF ~near THEN [ok |-> FALSE, grid |-> afterStart]
     ELSE IF validLoc
     THEN [ok |-> TRUE,
           grid |-> [afterStart EXCEPT
                       !.river.oldHeadLoc = grid.river.headLoc,
                       !.river.headLoc = linIndex,
                       !.grid[i][j].type = LHO_RIVER,
                       !.numFilledTiles = n,
                       !.full = IF n = grid.maxTiles THEN TRUE ELSE @]]
     ELSE [ok |-> TRUE, grid |-> afterStart]

\* remove_terrain, lines 1156-1179
older_remove_terrain(linIndex, grid) ==
  LET i == get_row_idx(linIndex)
      j == get_col_idx(linIndex)
      oldType == grid.grid[i][j].type
      emptied == [grid EXCEPT !.grid[i][j].type = LHO_EMPTY,
                              !.numFilledTiles = IF oldType > -1 THEN @ - 1 ELSE @]
  IN IF grid.river.headLoc = linIndex
     THEN [emptied EXCEPT !.river.headLoc = grid.river.oldHeadLoc,
                          !.river.newRiver = IF grid.river.oldHeadLoc = -1
                                             THEN TRUE ELSE @]
     ELSE emptied

OlderAddLand(i) ==
  /\ nOps < MaxOps
  /\ LET r == older_add_land(i, g)
     IN /\ g' = r.grid
        /\ lastOp' = [op |-> "land", idx |-> i, ok |-> r.ok]
  /\ pre' = g
  /\ nOps' = nOps + 1
  /\ placed' = placed
  /\ UNCHANGED <<landVars, searchVars>>

OlderAddRiver(i) ==
  /\ nOps < MaxOps
  /\ LET r == older_add_river(i, g)
     IN /\ g' = r.grid
        /\ lastOp' = [op |-> "river", idx |-> i, ok |-> r.ok]
  /\ pre' = g
  /\ nOps' = nOps + 1
  /\ placed' = placed
  /\ UNCHANGED <<landVars, searchVars>>

OlderRemoveTerrain(i) ==
  /\ nOps < MaxOps
  /\ g' = older_remove_terrain(i, g)
  /\ lastOp' = [op |-> "remove", idx |-> i, ok |-> TRUE]
  /\ pre' = g
  /\ nOps' = nOps + 1
  /\ placed' = placed
  /\ UNCHANGED <<landVars, searchVars>>

OlderNext ==
  \/ \E i \in Indices \cup OutsideIndices :
       \/ OlderAddLand(i)
       \/ OlderAddRiver(i)
  \/ \E i \in Indices : OlderRemoveTerrain(i)

OlderSpec == Init /\ [][OlderNext]_vars

----------------------------------------------------------------------------
(* heuristic_grid: every tile Landscape, then the zig-zag river from the    *)
(* top left.  Only the tile kinds are written: the counters, the fill       *)
(* count, the full flag and the river cursor stay as they were.  A write    *)
(* to a row outside the array is undefined behaviour: it is left out of     *)
(* the tiles and reported in oob.                                           *)

LHO_UP == "UP"
LHO_DOWN == "DOWN"
LHO_LEFT == "LEFT"
LHO_RIGHT == "RIGHT"

InGrid(i, j) == i \in Rows /\ j \in Cols

\* one pass of the while loop from the locals in z; the recursion is the loop
RECURSIVE ZigZag(_)
ZigZag(z) ==
  LET i == z.i
      j == z.j
      written == [tiles |-> IF InGrid(i, j)
                            THEN [z.tiles EXCEPT ![i][j].type = LHO_RIVER]
                            ELSE z.tiles,
                  oob |-> z.oob \/ ~InGrid(i, j),
                  cells |-> Append(z.cells, <<i, j>>)]
      done == (j = numCols - 1)
      \* switch (zigLocalDir)
      j1 == CASE z.zigLocalDir = LHO_RIGHT -> j + 1
              [] z.zigLocalDir = LHO_LEFT -> j - 1
              [] OTHER -> j
      i1 == CASE z.zigLocalDir = LHO_DOWN -> i + 1
              [] z.zigLocalDir = LHO_UP -> i - 1
              [] OTHER -> i
      local1 == IF z.zigLocalDir \in {LHO_RIGHT, LHO_LEFT} THEN z.zigNextDir ELSE LHO_RIGHT
      next1 == IF z.zigLocalDir \in {LHO_RIGHT, LHO_LEFT}
               THEN (IF z.zigOverallDir = LHO_DOWN THEN LHO_DOWN ELSE LHO_UP)
               ELSE z.zigNextDir
      \* if (i == numRows)
      hitBottom == (i1 = numRows)
      i2 == IF hitBottom THEN i1 - 2 ELSE i1
      overall2 == IF hitBottom THEN LHO_UP ELSE z.zigOverallDir
      next2 == IF hitBottom THEN LHO_UP ELSE next1
      \* if (i == -1 && !firstLoop)
      hitTop == (i2 = -1 /\ ~z.firstLoop)
      i3 == IF hitTop THEN i2 + 2 ELSE i2
      overall3 == IF hitTop THEN LHO_DOWN ELSE overall2
      next3 == IF hitTop THEN LHO_DOWN ELSE next2
  IN IF done
     THEN written
     ELSE ZigZag([tiles |-> written.tiles, oob |-> written.oob, cells |-> written.cells,
                  i |-> i3, j |-> j1,
                  zigLocalDir |-> local1, zigNextDir |-> next3, zigOverallDir |-> overall3,
                  firstLoop |-> FALSE])

\* heuristic_grid(grid): [grid, oob, cells]; cells lists the (row, column)
\* pairs the loop wrote as River, in order
heuristic_grid(grid) ==
  LET allLand == [i \in Rows |-> [j \in Cols |->
                    [grid.grid[i][j] EXCEPT !.type = LHO_LANDSCAPE]]]
      z == ZigZag([tiles |-> allLand, oob |-> FALSE, cells |-> <<>>,
                   i |-> 0, j |-> 0,
                   zigLocalDir |-> LHO_RIGHT, zigNextDir |-> LHO_DOWN,
                   zigOverallDir |-> LHO_DOWN, firstLoop |-> TRUE])
  IN [grid |-> [grid EXCEPT !.grid = z.tiles], oob |-> z.oob, cells |-> z.cells]

----------------------------------------------------------------------------
(* SearchSpec: main calls recurse_grid on an empty grid.  stack holds one   *)
(* record per active call of recurse_grid, the innermost last:              *)
(*   grid         *grid, the caller's grid this call works on               *)
(*   bestGrid, thisGrid, tempGrid, currentBest, val   the locals            *)
(*   k            the loop position 2*i + j                                 *)
(*   pc           "entry" before the first statement, "loop" at the head    *)
(*                of the inner loop body, "wait" while a recursive call     *)
(*                runs, "ret" when the call has returned                    *)
(* A run of the program is named by its variant:                            *)
(*   "main"     the program of src/main.c                                   *)
(*   "noprune"  the same with the early exit of lines 640-643 removed       *)
(*   "noseed"   the same without the heuristic seed of lines 660-666, as    *)
(*              in the earlier recurse_grid of lines 1315-1395              *)

\* grid sizes of the search; 1x3 is the smallest grid on which
\* heuristic_grid writes outside the array
SearchSizes == {<<1, 1>>, <<1, 2>>, <<2, 1>>, <<1, 3>>, <<3, 1>>, <<2, 2>>}

\* every size up to 2x3, for the comparison of two program runs
PairSizes == {<<1, 1>>, <<1, 2>>, <<1, 3>>, <<2, 1>>, <<2, 2>>, <<2, 3>>}

Variant == IF run.todo = <<>> THEN "none" ELSE Head(run.todo)

NewFrame(grid) ==
  [grid |-> grid, bestGrid |-> grid, thisGrid |-> grid, tempGrid |-> grid,
   currentBest |-> -1, val |-> -1, k |-> 0, pc |-> "entry"]

Top == stack[Len(stack)]

SetTop(f) == [stack EXCEPT ![Len(stack)] = f]

\* process start: the statics as initialised, main's allocate_grid, and the
\* call recurse_grid(&grid) about to run
StartRun(variant) ==
  /\ bestVal' = -1
  /\ prevBest' = -1
  /\ initial_recursion' = (variant # "noseed")
  /\ stack' = <<NewFrame(allocate_grid)>>

InitPlan(plan, sizes) ==
  /\ \E d \in sizes : numRows = d[1] /\ numCols = d[2]
  /\ InitLandChoice
  /\ InitApiIdle
  /\ run = [todo |-> plan, status |-> "running", pruned |-> 0, first |-> NoFirst]
  /\ results = <<>>
  /\ bestVal = -1
  /\ prevBest = -1
  /\ initial_recursion = (plan[1] # "noseed")
  /\ stack = <<NewFrame(allocate_grid)>>

\* PruneRule without the room left for the empty tiles
PruneRule_NoRemaining(grid) == val_calc(grid) <= bestVal

\* the early exit of lines 635-643
PruneRule(grid) ==
  val_calc(grid) + maxTileVal * (grid.maxTiles - grid.numFilledTiles) <= bestVal

Pruned(grid) == Variant # "noprune" /\ PruneRule(grid)

\* ReturnsAtOnce without the early exit of lines 635-643
ReturnsAtOnce_OnlyFull(grid) == grid.full

\* lines 630-643: the two early returns
ReturnsAtOnce(grid) == IF grid.full THEN TRUE ELSE Pruned(grid)

\* Locals with currentBest started at -1 instead of bestVal
Locals_FreshBest(f) ==
  [f EXCEPT !.val = val_calc(f.grid),
            !.currentBest = -1,
            !.bestGrid = copy_grid(allocate_grid, f.grid),
            !.thisGrid = copy_grid(allocate_grid, f.grid),
            !.tempGrid = allocate_grid,
            !.k = 0,
            !.pc = "loop"]

\* lines 645-658: the locals of a call that goes on to the loop
Locals(f) ==
  [f EXCEPT !.val = val_calc(f.grid),
            !.currentBest = bestVal,
            !.bestGrid = copy_grid(allocate_grid, f.grid),
            !.thisGrid = copy_grid(allocate_grid, f.grid),
            !.tempGrid = allocate_grid,
            !.k = 0,
            !.pc = "loop"]

\* lines 630-643: the call returns its grid untouched
EnterReturn ==
  /\ run.status = "running"
  /\ Top.pc = "entry"
  /\ ReturnsAtOnce(Top.grid)
  /\ stack' = SetTop([Top EXCEPT !.pc = "ret",
                                 !.val = IF Top.grid.full THEN @ ELSE val_calc(Top.grid)])
  /\ run' = [run EXCEPT !.pruned = IF Top.grid.full THEN @ ELSE @ + 1,
                         !.first = IF Top.grid.full /\ val_calc(Top.grid) > @.val
                                   THEN [val |-> val_calc(Top.grid), tiles |-> Top.grid.grid]
                                   ELSE @]
  /\ UNCHANGED <<landVars, apiVars, bestVal, initial_recursion, results, prevBest>>

\* lines 645-658 with initial_recursion false
EnterLoop ==
  /\ run.status = "running"
  /\ Top.pc = "entry"
  /\ ~ReturnsAtOnce(Top.grid)
  /\ ~initial_recursion
  /\ stack' = SetTop(Locals(Top))
  /\ UNCHANGED <<landVars, apiVars, bestVal, initial_recursion, run, results, prevBest>>

\* SeededFrame with a seed value above every score a grid can have
SeededFrame_Inflated(f) ==
  LET h == heuristic_grid(f.tempGrid)
  IN [f EXCEPT !.tempGrid = h.grid,
               !.currentBest = val_calc(h.grid) + 16 * maxTileVal * f.grid.maxTiles,
               !.bestGrid = copy_grid(f.bestGrid, h.grid)]

\* lines 660-666: the heuristic seed, every write of heuristic_grid inside
\* the array
SeededFrame(f) ==
  LET h == heuristic_grid(f.tempGrid)
  IN [f EXCEPT !.tempGrid = h.grid,
               !.currentBest = val_calc(h.grid),
               !.bestGrid = copy_grid(f.bestGrid, h.grid)]

EnterSeed ==
  /\ run.status = "running"
  /\ Top.pc = "entry"
  /\ ~ReturnsAtOnce(Top.grid)
  /\ initial_recursion
  /\ LET f == SeededFrame(Locals(Top))
     IN /\ stack' = SetTop(f)
        /\ prevBest' = bestVal
        /\ bestVal' = f.currentBest
  /\ initial_recursion' = FALSE
  /\ UNCHANGED <<landVars, apiVars, run, results>>

\* heuristic_grid wrote outside the array: the write hit memory that is not
\* a tile of this grid and the program goes on ...
SeedOutside == heuristic_grid(allocate_grid).oob

\* ... or the program is killed by the write
EnterSeedCrash ==
  /\ run.status = "running"
  /\ Top.pc = "entry"
  /\ ~ReturnsAtOnce(Top.grid)
  /\ initial_recursion
  /\ SeedOutside
  /\ run' = [run EXCEPT !.status = "crashed"]
  /\ UNCHANGED <<landVars, apiVars, bestVal, initial_recursion, stack, results, prevBest>>

\* Attempts with copy_grid after remove_terrain: the grid handed to the
\* recursion is the working grid with the tile taken off again
RECURSIVE Attempts_CopyAfterRemove(_, _, _)
Attempts_CopyAfterRemove(k, thisGrid, tempGrid) ==
  IF k >= 2 * (numRows * numCols)
  THEN [called |-> FALSE, k |-> k, thisGrid |-> thisGrid, tempGrid |-> tempGrid]
  ELSE LET i == k \div 2
           r == IF k % 2 = 0 THEN add_river(i, thisGrid) ELSE add_land(i, thisGrid)
       IN IF r.ok
          THEN [called |-> TRUE, k |-> k,
                thisGrid |-> remove_terrain(i, r.grid),
                tempGrid |-> copy_grid(tempGrid, remove_terrain(i, r.grid))]
          ELSE Attempts_CopyAfterRemove(k + 1, r.grid, tempGrid)

\* lines 668-704 from loop position k: the attempts that are refused, up to
\* the first placement that is accepted (or the end of the loop).  thisGrid
\* carries what the refused calls and the accepted call with its
\* remove_terrain leave in it; tempGrid is the copy handed to the recursion.
RECURSIVE Attempts(_, _, _)
Attempts(k, thisGrid, tempGrid) ==
  IF k >= 2 * (numRows * numCols)
  THEN [called |-> FALSE, k |-> k, thisGrid |-> thisGrid, tempGrid |-> tempGrid]
  ELSE LET i == k \div 2
           r == IF k % 2 = 0 THEN add_river(i, thisGrid) ELSE add_land(i, thisGrid)
       IN IF r.ok
          THEN [called |-> TRUE, k |-> k,
                thisGrid |-> remove_terrain(i, r.grid),
                tempGrid |-> copy_grid(tempGrid, r.grid)]
          ELSE Attempts(k + 1, r.grid, tempGrid)

\* lines 668-704 as a whole: the grids handed to the recursive calls of one
\* recurse_grid call, in order, from loop position k on.  What a recursive
\* call returns is written to tempGrid only, so the list depends on
\* thisGrid alone.
RECURSIVE Candidates(_, _)
Candidates(k, thisGrid) ==
  LET a == Attempts(k, thisGrid, allocate_grid)
  IN IF a.called
     THEN <<a.tempGrid>> \o Candidates(a.k + 1, a.thisGrid)
     ELSE <<>>

\* the loop of the older program, lines 1349-1385: chk_loc(i, thisGrid) is
\* tested once per cell, before the river and the landscape attempt, and
\* the placement functions are those of the older program
RECURSIVE OlderCandidates(_, _)
OlderCandidates(k, thisGrid) ==
  IF k >= 2 * (numRows * numCols) THEN <<>>
  ELSE LET i == k \div 2
       IN IF k % 2 = 0 /\ ~chk_loc(i, thisGrid)
          THEN OlderCandidates(k + 2, thisGrid)
          ELSE LET r == IF k % 2 = 0 THEN older_add_river(i, thisGrid)
                                     ELSE older_add_land(i, thisGrid)
               IN IF r.ok
                  THEN <<copy_grid(allocate_grid, r.grid)>>
                         \o OlderCandidates(k + 1, older_remove_terrain(i, r.grid))
                  ELSE OlderCandidates(k + 1, r.grid)

\* the loop reaches a recursive call
Call ==
  /\ run.status = "running"
  /\ Top.pc = "loop"
  /\ LET a == Attempts(Top.k, Top.thisGrid, Top.tempGrid)
     IN /\ a.called
        /\ stack' = Append(SetTop([Top EXCEPT !.k = a.k, !.thisGrid = a.thisGrid,
                                              !.tempGrid = a.tempGrid, !.pc = "wait"]),
                           NewFrame(a.tempGrid))
  /\ UNCHANGED <<landVars, apiVars, bestVal, initial_recursion, run, results, prevBest>>

\* IsBetter with >= for >: a returned grid that ties the best replaces it
IsBetter_OrEqual(val, currentBest) == val >= currentBest

\* IsBetter that takes every returned grid as the new best
IsBetter_Always(val, currentBest) == TRUE

\* the test of lines 680 and 695
IsBetter(val, currentBest) == val > currentBest

\* lines 679-684 and 694-699 in the caller, after the call returned
Compared(f, returned) ==
  LET val == val_calc(returned)
  IN IF IsBetter(val, f.currentBest)
     THEN [f EXCEPT !.tempGrid = returned, !.val = val, !.currentBest = val,
                    !.bestGrid = copy_grid(f.bestGrid, returned)]
     ELSE [f EXCEPT !.tempGrid = returned, !.val = val]

Return ==
  /\ run.status = "running"
  /\ Len(stack) > 1
  /\ Top.pc = "ret"
  /\ LET caller == stack[Len(stack) - 1]
         f == Compared(caller, Top.grid)
         better == IsBetter(f.val, caller.currentBest)
     IN /\ stack' = [SubSeq(stack, 1, Len(stack) - 1) EXCEPT
                       ![Len(stack) - 1] = [f EXCEPT !.k = @ + 1, !.pc = "loop"]]
        /\ bestVal' = IF better THEN f.val ELSE bestVal
        /\ prevBest' = IF better THEN bestVal ELSE prevBest
  /\ UNCHANGED <<landVars, apiVars, initial_recursion, run, results>>

\* the loop ends without another call; lines 707-713
Finish ==
  /\ run.status = "running"
  /\ Top.pc = "loop"
  /\ LET a == Attempts(Top.k, Top.thisGrid, Top.tempGrid)
     IN /\ ~a.called
        /\ stack' = SetTop([Top EXCEPT !.k = a.k, !.thisGrid = a.thisGrid,
                                       !.grid = copy_grid(Top.grid, Top.bestGrid),
                                       !.pc = "ret"])
  /\ UNCHANGED <<landVars, apiVars, bestVal, initial_recursion, run, results, prevBest>>

\* main, lines 744-752: the grid comes back and its value is printed; the
\* next program run, if any, starts from fresh statics
MainReturn ==
  /\ run.status = "running"
  /\ Len(stack) = 1
  /\ Top.pc = "ret"
  /\ results' = Append(results, [variant |-> Variant, grid |-> Top.grid,
                                 val |-> val_calc(Top.grid), bestVal |-> bestVal,
                                 pruned |-> run.pruned, first |-> run.first])
  /\ IF Len(run.todo) > 1
     THEN /\ run' = [run EXCEPT !.todo = Tail(@), !.pruned = 0, !.first = NoFirst]
          /\ StartRun(run.todo[2])
     ELSE /\ run' = [run EXCEPT !.todo = <<>>, !.status = "done"]
          /\ UNCHANGED <<bestVal, initial_recursion, stack, prevBest>>
  /\ UNCHANGED <<landVars, apiVars>>

SearchNext ==
  \/ EnterReturn
  \/ EnterLoop
  \/ EnterSeed
  \/ EnterSeedCrash
  \/ Call
  \/ Return
  \/ Finish
  \/ MainReturn

SearchInit == InitPlan(<<"main">>, SearchSizes)

SearchSpec == SearchInit /\ [][SearchNext]_vars

\* CentreSpec: the search on the smallest grid with a cell off the border,
\* 3x3, for the Mountain kind, and on the 1x3 grid
CentreSizes == {<<1, 3>>, <<3, 3>>}

CentreInit == InitPlan(<<"main">>, CentreSizes) /\ landChoice = LHO_MOUNTAIN

CentreSpec == CentreInit /\ [][SearchNext]_vars

\* the program run twice on the same input, the second time without the
\* early exit
PruneInit == InitPlan(<<"main", "noprune">>, PairSizes)

PruneSpec == PruneInit /\ [][SearchNext]_vars

\* the program run twice on the same input, the second time without the
\* heuristic seed: initial_recursion starts false
SeedInit == InitPlan(<<"main", "noseed">>, PairSizes)

SeedSpec == SeedInit /\ [][SearchNext]_vars

----------------------------------------------------------------------------
(* Properties                                                               *)

Range(seq) == {seq[n] : n \in 1 .. Len(seq)}

Max(S) == CHOOSE x \in S : \A y \in S : y <= x

\* linear indices of orthogonally adjacent cells
Adjacent(a, b) ==
  \/ (a \div numCols) = (b \div numCols) /\ abs((a % numCols) - (b % numCols)) = 1
  \/ (a % numCols) = (b % numCols) /\ abs((a \div numCols) - (b \div numCols)) = 1

BorderCell(a) == OnBorder(a \div numCols, a % numCols)

TypeAt(grid, a) == grid.grid[a \div numCols][a % numCols].type

RiverCells(grid) == {a \in Indices : TypeAt(grid, a) = LHO_RIVER}

NonEmptyCells(grid) == {a \in Indices : TypeAt(grid, a) # LHO_EMPTY}

\* the simple paths of orthogonal steps that start on the border, by length
RECURSIVE BorderPaths(_)
BorderPaths(len) ==
  IF len = 1
  THEN {<<a>> : a \in {b \in Indices : BorderCell(b)}}
  ELSE {Append(p, c) : p \in BorderPaths(len - 1),
                       c \in Indices} \cap
       {q \in [1 .. len -> Indices] :
          /\ q[len] \notin {q[n] : n \in 1 .. len - 1}
          /\ Adjacent(q[len - 1], q[len])}

\* S is the set of cells of one connected simple path with its first tile on
\* the border
IsBorderPath(S) ==
  S # {} /\ \E p \in BorderPaths(Cardinality(S)) : Range(p) = S

----------------------------------------------------------------------------
(* C1: for a 2x2 grid with the Meadow kind the score main computes for the  *)
(* grid recurse_grid returns equals the largest score of all valid full     *)
(* fillings (every cell River or Landscape, the River cells one connected   *)
(* simple path from the border, or no River), found by enumeration and      *)
(* scored from the tile kinds.                                              *)

\* the full grid whose River cells are S, every other cell Landscape
Filling(S) ==
  [allocate_grid EXCEPT
     !.grid = [i \in Rows |-> [j \in Cols |->
                 [EmptyTile EXCEPT !.type = IF i * numCols + j \in S
                                            THEN LHO_RIVER ELSE LHO_LANDSCAPE]]]]

ValidRiverSets == {S \in SUBSET Indices : S = {} \/ IsBorderPath(S)}

BruteForceMax == Max({recount_val_calc(Filling(S)) : S \in ValidRiverSets})

IsMeadow2x2 == numRows = 2 /\ numCols = 2 /\ landChoice = LHO_MEADOW

C1_SearchMatchesBruteForce ==
  (run.status = "done" /\ IsMeadow2x2) => results[1].val = BruteForceMax

C1_Witness ==
  /\ run.status = "done" /\ IsMeadow2x2
  /\ results[1].val = 15
  /\ Cardinality(RiverCells(results[1].grid)) = 1

----------------------------------------------------------------------------
(* C2: the bound of the early exit is an over-estimate: a full grid         *)
(* obtained from a partial grid by an accepted placement scores at most     *)
(* the partial grid's score plus maxTileVal for each of its empty tiles.    *)
(* Stated for every partial grid reached by accepted placements only and    *)
(* the placement that fills it.                                             *)

OnlyAcceptedPlacements == nOps = g.numFilledTiles /\ lastOp.ok

UpperBound(grid) == val_calc(grid) + maxTileVal * (grid.maxTiles - grid.numFilledTiles)

C2_BoundIsOverEstimate ==
  (OnlyAcceptedPlacements /\ g.full) => val_calc(g) <= UpperBound(pre)

----------------------------------------------------------------------------
(* C3: for every landscape kind and every grid size up to 2x3, the program  *)
(* with the early exit and the program without it return grids of the same  *)
(* score.                                                                   *)

C3_PruningKeepsScore ==
  (run.status = "done" /\ Len(results) = 2) => results[1].val = results[2].val

C3_Witness ==
  /\ run.status = "done" /\ Len(results) = 2
  /\ numRows * numCols >= 4
  /\ results[1].variant = "main" /\ results[1].pruned > 0
  /\ results[2].variant = "noprune" /\ results[2].pruned = 0

----------------------------------------------------------------------------
(* C4: after accepted add_river calls and remove_terrain calls the River    *)
(* tiles form one connected simple path whose first tile is on the border.  *)

C4_RiverIsBorderPath ==
  RiverCells(g) = {} \/ IsBorderPath(RiverCells(g))

----------------------------------------------------------------------------
(* C5: in every grid the engine holds (the working grid, the copy handed    *)
(* to a recursive call, the local best grid, the grid of the call, and the  *)
(* grid main gets back) numFilledTiles is the number of non-empty tiles.    *)

FilledCountOk(grid) == grid.numFilledTiles = Cardinality(NonEmptyCells(grid))

C5_FilledCountEverywhere ==
  /\ \A n \in 1 .. Len(stack) :
       /\ FilledCountOk(stack[n].grid)
       /\ FilledCountOk(stack[n].bestGrid)
       /\ FilledCountOk(stack[n].thisGrid)
       /\ FilledCountOk(stack[n].tempGrid)
  /\ \A n \in 1 .. Len(results) : FilledCountOk(results[n].grid)

----------------------------------------------------------------------------
(* C6: after any calls of add_land, add_river and remove_terrain every      *)
(* tile's numAdjRivers and numAdjLands are the numbers of its orthogonal    *)
(* River and Landscape neighbours, and val_calc on the counters gives what  *)
(* the recounting val_calc of the earlier variant gives.                    *)

CountersExact(grid) ==
  \A i \in Rows : \A j \in Cols :
    /\ grid.grid[i][j].numAdjRivers = count_adj_rivers(i, j, grid)
    /\ grid.grid[i][j].numAdjLands = count_adj_lands(i, j, grid)

C6_CountersMatchNeighbours ==
  CountersExact(g) /\ val_calc(g) = recount_val_calc(g)

C6_Witness ==
  /\ lastOp.op = "remove"
  /\ \E i \in Rows : \E j \in Cols :
       /\ g.grid[i][j].type = LHO_LANDSCAPE
       /\ g.grid[i][j].numAdjRivers > 0
       /\ g.grid[i][j].numAdjLands > 0
  /\ val_calc(g) > 0

----------------------------------------------------------------------------
(* C7: add_land(i) accepted and then remove_terrain(i) restores every       *)
(* tile kind, every counter and numFilledTiles.                             *)

C7_LandRoundTrip ==
  lastOp.op = "undo_land" =>
    /\ g.grid = pre.grid
    /\ g.numFilledTiles = pre.numFilledTiles

C7_Witness ==
  /\ lastOp.op = "undo_land"
  /\ pre.numFilledTiles = 2
  /\ \E a \in Indices : TypeAt(pre, a) = LHO_LANDSCAPE /\ Adjacent(a, lastOp.idx)

----------------------------------------------------------------------------
(* C8: add_river(i) accepted and then remove_terrain(i) leaves headLoc,     *)
(* oldHeadLoc and newRiver as they were before the placement.               *)

C8_RiverRoundTrip ==
  lastOp.op = "undo_river" => g.river = pre.river

----------------------------------------------------------------------------
(* C9: after accepted add_river calls followed by any number of             *)
(* remove_terrain(headLoc) calls, headLoc is the River tile placed last     *)
(* among those still on the grid, or -1 with newRiver true when no River    *)
(* tile is left.                                                            *)

C9_HeadIsLastPlaced ==
  IF placed = <<>>
  THEN g.river.headLoc = -1 /\ g.river.newRiver
  ELSE g.river.headLoc = placed[Len(placed)]

----------------------------------------------------------------------------
(* C10: during one run of the search bestVal never decreases: no step of    *)
(* the run, at any recursion depth, leaves it smaller than it was.          *)

C10_BestValNeverDecreases ==
  [][Len(results') = Len(results) => bestVal' >= bestVal]_vars

C10_Witness ==
  /\ Len(stack) >= 2
  /\ prevBest >= 0
  /\ bestVal > prevBest

----------------------------------------------------------------------------
(* C11: the grid the top-level recurse_grid call hands back to main has no  *)
(* Empty tile, and in every call the local best grid is either still the    *)
(* copy of the incoming grid made at lines 646-648 or a grid without Empty  *)
(* tiles: a partly filled grid that a recursive call returned is never      *)
(* copied into bestGrid.                                                    *)

NoEmptyTile(grid) == NonEmptyCells(grid) = Indices

C11_ReturnedGridHasNoEmptyTile ==
  /\ \A n \in 1 .. Len(results) : NoEmptyTile(results[n].grid)
  /\ \A n \in 1 .. Len(stack) :
       stack[n].pc # "entry" =>
         \/ stack[n].bestGrid.grid = stack[n].grid.grid
         \/ NoEmptyTile(stack[n].bestGrid)

C11_Witness ==
  /\ run.status = "done"
  /\ numRows * numCols >= 4
  /\ results[1].pruned > 0
  /\ NoEmptyTile(results[1].grid)
  /\ results[1].grid.full

----------------------------------------------------------------------------
(* C12: for the Mountain kind the score of a grid is the sum, over the      *)
(* Landscape tiles, of m * landValue + m * r * landValue, where r is the    *)
(* number of orthogonally adjacent River cells and m the number of          *)
(* Landscape cells among all existing orthogonal and diagonal neighbours.   *)

\* the cells around (i, j) that exist, diagonals included
Surrounding(i, j) ==
  {c \in Rows \X Cols : c # <<i, j>> /\ abs(c[1] - i) <= 1 /\ abs(c[2] - j) <= 1}

LandsAround(i, j, grid) ==
  Cardinality({c \in Surrounding(i, j) : grid.grid[c[1]][c[2]].type = LHO_LANDSCAPE})

MountainFormula(grid) ==
  LET contrib(i, j) ==
        IF grid.grid[i][j].type = LHO_LANDSCAPE
        THEN LET r == count_adj_rivers(i, j, grid)
                 m == LandsAround(i, j, grid)
             IN m * landValue + m * r * landValue
        ELSE 0
  IN SumCells(contrib, numRows * numCols)

C12_MountainCountsDiagonals ==
  landChoice = LHO_MOUNTAIN => val_calc(g) = MountainFormula(g)

----------------------------------------------------------------------------
(* C13: when newRiver is true (no river started), add_river on a cell that  *)
(* is not in row 0, the last row, column 0 or the last column returns       *)
(* false and leaves every field of the grid as it was.                      *)

InteriorCell(a) ==
  /\ (a \div numCols) \notin {0, numRows - 1}
  /\ (a % numCols) \notin {0, numCols - 1}

FreshRiverOffBorder ==
  lastOp.op = "river" /\ pre.river.newRiver /\ InteriorCell(lastOp.idx)

C13_FreshRiverNeedsBorder ==
  FreshRiverOffBorder => (~lastOp.ok /\ g = pre)

C13_Witness ==
  /\ FreshRiverOffBorder
  /\ TypeAt(pre, lastOp.idx) = LHO_EMPTY
  /\ pre.numFilledTiles > 0
  /\ ~lastOp.ok

----------------------------------------------------------------------------
(* C14: when newRiver is false (a river was started), add_river(i) is       *)
(* accepted only if i is orthogonally adjacent to the River tile that is    *)
(* the river head.                                                          *)

StartedRiverAccepted ==
  lastOp.op = "river" /\ ~pre.river.newRiver /\ lastOp.ok

C14_StartedRiverNeedsHead ==
  StartedRiverAccepted =>
    /\ pre.river.headLoc \in Indices
    /\ TypeAt(pre, pre.river.headLoc) = LHO_RIVER
    /\ Adjacent(lastOp.idx, pre.river.headLoc)

----------------------------------------------------------------------------
(* C15: a call with an index outside 0 .. numRows * numCols - 1 is refused: *)
(* chk_loc is false, add_land and add_river return false, and add_land,     *)
(* add_river and remove_terrain leave the tile kinds, the counters,         *)
(* numFilledTiles, headLoc, oldHeadLoc and newRiver as they were.           *)

OutsideCall ==
  lastOp.op \in {"land", "river", "remove"} /\ lastOp.idx \notin Indices

SameGridState(a, b) ==
  a.grid = b.grid /\ a.numFilledTiles = b.numFilledTiles /\ a.river = b.river

C15_OutsideIndexRefused ==
  OutsideCall =>
    /\ ~chk_loc(lastOp.idx, pre)
    /\ (lastOp.op \in {"land", "river"} => ~lastOp.ok)
    /\ SameGridState(g, pre)

----------------------------------------------------------------------------
(* C16: in every grid reached by add_land, add_river and remove_terrain     *)
(* the flag full is true exactly when numFilledTiles equals maxTiles; it    *)
(* is false again after a tile is removed from a full grid.                 *)

C16_FullIffAllFilled ==
  g.full <=> (g.numFilledTiles = g.maxTiles)

----------------------------------------------------------------------------
(* C17: inside a recurse_grid call, after each attempted placement and its  *)
(* undo the working grid thisGrid equals the incoming grid in the tile      *)
(* kinds, the counters, numFilledTiles, full, headLoc, oldHeadLoc and       *)
(* newRiver.                                                                *)

InLoop(f) == f.pc \in {"loop", "wait"}

C17_WorkingGridRestored ==
  \A n \in 1 .. Len(stack) :
    InLoop(stack[n]) =>
      /\ SameGridState(stack[n].thisGrid, stack[n].grid)
      /\ stack[n].thisGrid.full = stack[n].grid.full

----------------------------------------------------------------------------
(* C18: for every landscape kind and every grid size up to 2x3, the         *)
(* program with the heuristic seed and the program without it (bestVal      *)
(* left at -1, no heuristic grid) return grids of the same score.           *)

BothRunsDone == run.status = "done" /\ Len(results) = 2

----------------------------------------------------------------------------
(* C19: the value the seeding writes to bestVal is the score of the         *)
(* heuristic grid: the formula of the chosen kind applied to the grid's     *)
(* tile kinds with the true numbers of adjacent River and Landscape cells.  *)

\* the top-level call has just run lines 660-666; tempGrid is the heuristic
\* grid
JustSeeded ==
  /\ Len(stack) = 1
  /\ stack[1].pc = "loop" /\ stack[1].k = 0
  /\ ~initial_recursion

C19_SeedValueIsTrueScore ==
  JustSeeded => bestVal = recount_val_calc(stack[1].tempGrid)

----------------------------------------------------------------------------
(* C20: the heuristic grid has no Empty tile: the cells heuristic_grid      *)
(* writes as River start with (0, 0), each is a cell of the grid and        *)
(* orthogonally adjacent to the one written before it, no cell is written   *)
(* twice, the last one is in the last column, and every other cell is       *)
(* Landscape.                                                               *)

ZigZagCells == heuristic_grid(allocate_grid).cells

StepsAreOrthogonal(cells) ==
  \A n \in 2 .. Len(cells) :
    abs(cells[n][1] - cells[n - 1][1]) + abs(cells[n][2] - cells[n - 1][2]) = 1

NoCellTwice(cells) ==
  \A m, n \in 1 .. Len(cells) : m # n => cells[m] # cells[n]

C20_HeuristicGridShape ==
  JustSeeded =>
    /\ ZigZagCells[1] = <<0, 0>>
    /\ \A n \in 1 .. Len(ZigZagCells) : InGrid(ZigZagCells[n][1], ZigZagCells[n][2])
    /\ StepsAreOrthogonal(ZigZagCells)
    /\ NoCellTwice(ZigZagCells)
    /\ ZigZagCells[Len(ZigZagCells)][2] = numCols - 1
    /\ \A i \in Rows : \A j \in Cols :
         stack[1].tempGrid.grid[i][j].type =
           IF <<i, j>> \in Range(ZigZagCells) THEN LHO_RIVER ELSE LHO_LANDSCAPE

----------------------------------------------------------------------------
(* C21: a call tries the cells in row-major order, at each cell the river   *)
(* before the landscape; it replaces its best grid only by a returned grid  *)
(* that scores strictly more than its current best; and the grid main gets  *)
(* back is, among the full grids of the best score handed to recurse_grid,  *)
(* the first one.                                                           *)

\* a step that enters a recursive call: the candidate is the caller's
\* incoming grid with one more tile, on cell k \div 2, River for even k
CandidateInOrder ==
  LET d == Len(stack)
      caller == stack'[d]
      child == stack'[d + 1]
      cell == caller.k \div 2
  IN /\ caller.k >= stack[d].k
     /\ TypeAt(stack[d].grid, cell) = LHO_EMPTY
     /\ TypeAt(child.grid, cell) = IF caller.k % 2 = 0 THEN LHO_RIVER ELSE LHO_LANDSCAPE
     /\ \A a \in Indices \ {cell} : TypeAt(child.grid, a) = TypeAt(stack[d].grid, a)

\* a step that returns into the caller: the loop moves on by one position
\* and the best grid is replaced only for a strictly greater score
ReplacedOnlyIfGreater ==
  LET d == Len(stack)
      before == stack[d - 1]
      after == stack'[d - 1]
  IN /\ after.k = before.k + 1
     /\ after.bestGrid # before.bestGrid =>
          /\ val_calc(stack[d].grid) > before.currentBest
          /\ after.bestGrid.grid = stack[d].grid.grid

FirstBestReturned ==
  \A n \in 1 .. Len(results) :
    /\ results[n].val = results[n].first.val
    /\ results[n].grid.grid = results[n].first.tiles

C21_FirstBestInRowMajorOrder ==
  /\ []FirstBestReturned
  /\ [][/\ Len(stack') = Len(stack) + 1 => CandidateInOrder
        /\ Len(stack') = Len(stack) - 1 => ReplacedOnlyIfGreater]_vars

C21_Witness ==
  /\ run.status = "done"
  /\ numRows = 2 /\ numCols = 2 /\ landChoice = LHO_MEADOW
  /\ results[1].val = BruteForceMax
  /\ RiverCells(results[1].grid) = {0}
  /\ recount_val_calc(Filling({3})) = BruteForceMax

----------------------------------------------------------------------------
(* C22: newRiver goes from false back to true only in a remove_terrain      *)
(* call that removes the only River tile of the grid: no add_land, no       *)
(* add_river and no removal that leaves a River tile behind does it.        *)

RiverRestarted == ~g.river.newRiver /\ g'.river.newRiver

C22_RestartOnlyByRemovingLastRiver ==
  [][RiverRestarted =>
       /\ lastOp'.op \in {"remove", "undo_river", "undo_land"}
       /\ RiverCells(g) = {lastOp'.idx}
       /\ RiverCells(g') = {}]_vars

C22_Witness ==
  /\ lastOp.op = "remove"
  /\ ~pre.river.newRiver /\ g.river.newRiver
  /\ RiverCells(pre) = {lastOp.idx}
  /\ NonEmptyCells(g) # {}

----------------------------------------------------------------------------
(* C23: in every grid reached by add_land, add_river and remove_terrain no  *)
(* Landscape tile adds more than maxTileVal to the score.                   *)

\* what the tile on cell a adds to val_calc(grid): val_calc reads the type
\* and the counters of the tile itself, so it is the score lost when only
\* the type of that tile is set to LHO_EMPTY
TileContribution(grid, a) ==
  val_calc(grid)
    - val_calc([grid EXCEPT !.grid[a \div numCols][a % numCols].type = LHO_EMPTY])

C23_TileWithinMaxTileVal ==
  \A a \in Indices :
    TypeAt(g, a) = LHO_LANDSCAPE => TileContribution(g, a) <= maxTileVal

----------------------------------------------------------------------------
(* C24: the search on an empty 1x1 grid returns a grid with exactly one     *)
(* non-Empty tile. For Meadow, Thicket and Suburb that tile is Landscape    *)
(* and the score is landValue. For Mountain a lone Landscape tile has no    *)
(* adjacent Landscape tile and scores 0, no more than the lone River tile   *)
(* of the seed, so the River tile is returned, with score 0.                *)

SearchedOneByOne == run.status = "done" /\ numRows = 1 /\ numCols = 1

\* the statement for all four kinds alike: the tile is Landscape and the
\* score is landValue
C24_LoneLandscapeForEveryKind ==
  SearchedOneByOne =>
    /\ NonEmptyCells(results[1].grid) = {0}
    /\ TypeAt(results[1].grid, 0) = LHO_LANDSCAPE
    /\ results[1].val = landValue

C24_OneTileOnOneByOne ==
  SearchedOneByOne =>
    /\ NonEmptyCells(results[1].grid) = {0}
    /\ IF landChoice = LHO_MOUNTAIN
         THEN /\ TypeAt(results[1].grid, 0) = LHO_RIVER
              /\ results[1].val = 0
         ELSE /\ TypeAt(results[1].grid, 0) = LHO_LANDSCAPE
              /\ results[1].val = landValue

C24_Witness ==
  /\ SearchedOneByOne
  /\ landChoice = LHO_MOUNTAIN
  /\ TypeAt(results[1].grid, 0) = LHO_RIVER
  /\ results[1].val = 0
  /\ val_calc(add_land(0, allocate_grid).grid) = 0

----------------------------------------------------------------------------
(* C25: for Meadow and Thicket the score val_calc gives a grid built by     *)
(* add_land and add_river is the sum, over the Landscape tiles, of          *)
(* landValue for a tile with no River cell orthogonally next to it and of   *)
(* landValue * 2 * (number of such River cells) otherwise; River and Empty  *)
(* tiles add nothing.                                                       *)

RiversNextTo(grid, a) ==
  Cardinality({b \in Indices : Adjacent(a, b) /\ TypeAt(grid, b) = LHO_RIVER})

LandsNextTo(grid, a) ==
  Cardinality({b \in Indices : Adjacent(a, b) /\ TypeAt(grid, b) = LHO_LANDSCAPE})

RECURSIVE SumOver(_, _)
SumOver(f, S) ==
  IF S = {} THEN 0
  ELSE LET x == CHOOSE y \in S : TRUE IN f[x] + SumOver(f, S \ {x})

MeadowThicketAmount(grid, a) ==
  IF TypeAt(grid, a) # LHO_LANDSCAPE THEN 0
  ELSE IF RiversNextTo(grid, a) = 0 THEN landValue
  ELSE landValue * 2 * RiversNextTo(grid, a)

C25_MeadowThicketScore ==
  landChoice \in {LHO_MEADOW, LHO_THICKET} =>
    val_calc(g) = SumOver([a \in Indices |-> MeadowThicketAmount(g, a)], Indices)

\* a 3x3 grid: the centre tile has three River cells next to it, the tile
\* right of it none, and two cells are still Empty
C25_Witness ==
  /\ landChoice \in {LHO_MEADOW, LHO_THICKET}
  /\ numRows = 3 /\ numCols = 3
  /\ RiverCells(g) = {0, 1, 3, 6, 7}
  /\ TypeAt(g, 4) = LHO_LANDSCAPE /\ RiversNextTo(g, 4) = 3
  /\ TypeAt(g, 5) = LHO_LANDSCAPE /\ RiversNextTo(g, 5) = 0
  /\ NonEmptyCells(g) = Indices \ {2, 8}
  /\ val_calc(g) = landValue * 2 * 3 + landValue

----------------------------------------------------------------------------
(* C26: for Suburb the score val_calc gives a grid built by add_land and    *)
(* add_river is the sum, over the Landscape tiles, of 2 * landValue for a   *)
(* tile whose four orthogonal neighbours all exist and are Landscape, else  *)
(* of landValue * 2 * (number of River cells orthogonally next to it) when  *)
(* there is such a River cell, else of landValue.                           *)

SuburbAmount(grid, a) ==
  IF TypeAt(grid, a) # LHO_LANDSCAPE THEN 0
  ELSE IF LandsNextTo(grid, a) = 4 THEN 2 * landValue
  ELSE IF RiversNextTo(grid, a) # 0 THEN landValue * 2 * RiversNextTo(grid, a)
  ELSE landValue

C26_SuburbScore ==
  landChoice = LHO_SUBURB =>
    val_calc(g) = SumOver([a \in Indices |-> SuburbAmount(g, a)], Indices)

\* a 3x3 grid: the centre tile has four suburbs around it, the tile above
\* it has the River tile of the corner next to it, the tile right of it has
\* neither
C26_Witness ==
  /\ landChoice = LHO_SUBURB
  /\ numRows = 3 /\ numCols = 3
  /\ RiverCells(g) = {0}
  /\ TypeAt(g, 4) = LHO_LANDSCAPE /\ LandsNextTo(g, 4) = 4
  /\ TypeAt(g, 1) = LHO_LANDSCAPE /\ RiversNextTo(g, 1) = 1
  /\ TypeAt(g, 5) = LHO_LANDSCAPE /\ RiversNextTo(g, 5) = 0
  /\ NonEmptyCells(g) = {0, 1, 3, 4, 5, 7}
  /\ val_calc(g) = 2 * landValue + 2 * (landValue * 2) + 2 * landValue

----------------------------------------------------------------------------
(* C27: a call of recurse_grid on a full grid, or on a grid that is not     *)
(* full with val_calc + maxTileVal * (number of Empty tiles) <= bestVal,    *)
(* returns at once: no placement is attempted and no further call is made,  *)
(* and the grid passed in, bestVal and initial_recursion are left as they   *)
(* were.                                                                    *)

EmptyCount(grid) == Cardinality(Indices \ NonEmptyCells(grid))

CalledOnFull == Top.grid.full \/ EmptyCount(Top.grid) = 0

CalledOnHopeless ==
  /\ ~CalledOnFull
  /\ val_calc(Top.grid) + maxTileVal * EmptyCount(Top.grid) <= bestVal

ReturnedUntouched ==
  /\ Len(stack') = Len(stack)
  /\ Top'.pc = "ret"
  /\ Top'.grid = Top.grid
  /\ Top'.thisGrid = Top.thisGrid
  /\ Top'.k = Top.k
  /\ bestVal' = bestVal
  /\ initial_recursion' = initial_recursion

C27_FullOrHopelessReturnsAtOnce ==
  [][(/\ run.status = "running"
      /\ stack # <<>>
      /\ Top.pc = "entry"
      /\ CalledOnFull \/ CalledOnHopeless) => ReturnedUntouched]_vars

\* a call on a grid that is not full has just returned by the early exit,
\* after a call on a full grid has returned too
C27_Witness ==
  /\ run.status = "running"
  /\ Len(stack) > 1
  /\ Top.pc = "ret"
  /\ CalledOnHopeless
  /\ Top.k = 0
  /\ Top.grid = stack[Len(stack) - 1].tempGrid
  /\ run.first # NoFirst

----------------------------------------------------------------------------
(* C28: in the older program a call of add_river that returns true has      *)
(* placed a River tile on the cell of its index: the index is inside the    *)
(* grid, the cell was Empty before the call and is River after it.          *)

C28_TrueOnlyWhenRiverPlaced ==
  (lastOp.op = "river" /\ lastOp.ok) =>
    /\ lastOp.idx \in Indices
    /\ TypeAt(pre, lastOp.idx) = LHO_EMPTY
    /\ TypeAt(g, lastOp.idx) = LHO_RIVER

----------------------------------------------------------------------------
(* C29: a call of add_land or add_river that returns false leaves every     *)
(* field of the grid as it was before the call: the tiles, the fill count,  *)
(* the full flag, newRiver, headLoc and oldHeadLoc.                         *)

C29_RefusedCallChangesNothing ==
  (lastOp.op \in {"land", "river"} /\ ~lastOp.ok) => g = pre

----------------------------------------------------------------------------
(* C30: in every grid reached by add_land, add_river and remove_terrain     *)
(* calls from the empty grid, newRiver is false exactly when the grid has   *)
(* at least one River tile.                                                 *)

C30_RiverStartedIffRiverTile ==
  (~g.river.newRiver) <=> (RiverCells(g) # {})

----------------------------------------------------------------------------
(* C31: every grid the search hands to a recursive call, and the grid it    *)
(* returns in the end, has no River tile or River tiles that form one       *)
(* simple path of orthogonal steps with an end on the border; on a 3x3      *)
(* grid no such grid has the centre cell as its only River tile.            *)

\* the cells of S can be walked from a, each exactly once, by orthogonal
\* steps
RECURSIVE PathFrom(_, _)
PathFrom(a, S) ==
  \/ S = {a}
  \/ \E b \in S \ {a} : Adjacent(a, b) /\ PathFrom(b, S \ {a})

RiverIsBorderPath(grid) ==
  LET S == RiverCells(grid)
  IN S = {} \/ \E a \in S : BorderCell(a) /\ PathFrom(a, S)

C31_CandidatesHaveBorderRiver ==
  /\ \A n \in 1 .. Len(stack) :
       stack[n].pc = "entry" => RiverIsBorderPath(stack[n].grid)
  /\ \A n \in 1 .. Len(results) : RiverIsBorderPath(results[n].grid)

----------------------------------------------------------------------------
(* C32: heuristic_grid writes only tiles (i, j) with 0 <= i < numRows and   *)
(* 0 <= j < numCols, on every grid size, one-row and one-column grids       *)
(* included: once the top-level call has run the seed, no write has gone    *)
(* outside the array.                                                       *)

SeedHasRun == ~initial_recursion \/ run.status = "crashed"

C32_SeedWritesInsideGrid ==
  SeedHasRun => ~heuristic_grid(allocate_grid).oob

----------------------------------------------------------------------------
(* C33: the grid main gets back from recurse_grid is marked full: its flag  *)
(* full is true and its numFilledTiles is numRows * numCols.                *)

C33_ReturnedGridMarkedFull ==
  \A n \in 1 .. Len(results) :
    /\ results[n].grid.full
    /\ results[n].grid.numFilledTiles = numRows * numCols

----------------------------------------------------------------------------
(* C34: an accepted add_land or add_river call never lowers the score:      *)
(* val_calc of the grid after the call is at least val_calc of the grid     *)
(* before it, for every kind.  So a grid that is not full never scores      *)
(* more than its completion with Landscape on every Empty cell.             *)

\* the grid after add_land on every Empty cell, in row-major order
RECURSIVE FilledWithLand(_, _)
FilledWithLand(grid, a) ==
  IF a >= numRows * numCols THEN grid
  ELSE FilledWithLand(add_land(a, grid).grid, a + 1)

TileAdded == Cardinality(NonEmptyCells(g')) = Cardinality(NonEmptyCells(g)) + 1

C34_PlacementNeverLowersScore ==
  /\ [](val_calc(g) <= val_calc(FilledWithLand(g, 0)))
  /\ [][TileAdded => val_calc(g') >= val_calc(g)]_vars

\* a full 3x3 grid with River and Landscape tiles whose score is above that
\* of the same Landscape tiles without a River next to them
C34_Witness ==
  /\ numRows = 3 /\ numCols = 3
  /\ g.full
  /\ NoEmptyTile(g)
  /\ Cardinality(RiverCells(g)) = 3
  /\ val_calc(g) > 6 * landValue

----------------------------------------------------------------------------
(* C35: from every grid a recurse_grid call of the search starts its loop   *)
(* on, the loop of the main program (the placement functions test the cell  *)
(* themselves) and the loop of the older program (chk_loc tested before     *)
(* the placement functions are called) hand the same grids, by tile kinds   *)
(* and in the same order, to the recursive calls.                           *)

Kinds(grid) == [a \in Indices |-> TypeAt(grid, a)]

KindsOfAll(grids) == [n \in 1 .. Len(grids) |-> Kinds(grids[n])]

AtLoopStart(f) == f.pc = "loop" /\ f.k = 0

C35_GuardedLoopSameCandidates ==
  \A n \in 1 .. Len(stack) :
    AtLoopStart(stack[n]) =>
      KindsOfAll(Candidates(0, stack[n].thisGrid))
        = KindsOfAll(OlderCandidates(0, stack[n].thisGrid))

----------------------------------------------------------------------------
(* C36: whenever a call is at the head of its loop, at the start and after  *)
(* each comparison of a returned grid, its currentBest equals bestVal.  A   *)
(* recursive call that raised bestVal returns a grid whose val_calc is      *)
(* bestVal.  When main gets the grid back, bestVal is the val_calc main     *)
(* computes for it.                                                         *)

LocalBestIsGlobal ==
  \A n \in 1 .. Len(stack) :
    stack[n].pc = "loop" => stack[n].currentBest = bestVal

MainValueIsBest ==
  \A n \in 1 .. Len(results) : results[n].val = results[n].bestVal

\* the step in which a recursive call hands its grid back to its caller
CallReturns == Len(stack) > 1 /\ Len(stack') = Len(stack) - 1

\* bestVal is above what the caller knew when it made the call
RaisedByCallee == bestVal > stack[Len(stack) - 1].currentBest

C36_LocalBestTracksBestVal ==
  /\ [](LocalBestIsGlobal /\ MainValueIsBest)
  /\ [][(CallReturns /\ RaisedByCallee) => val_calc(Top.grid) = bestVal]_vars

\* a recursive call below the top-level call has returned a grid that beat
\* the seed, and its caller has compared it
C36_Witness ==
  /\ run.status = "running"
  /\ Len(stack) >= 2
  /\ Top.pc = "loop" /\ Top.k > 0
  /\ Top.val = bestVal
  /\ Top.currentBest = bestVal
  /\ prevBest >= 0 /\ prevBest < bestVal
  /\ val_calc(Top.bestGrid) = bestVal

----------------------------------------------------------------------------
(* C37: the search ends on every checked size and kind.  Every recursive    *)
(* call gets a grid with exactly one more non-Empty tile than the grid its  *)
(* caller was called on, so there are never more than numRows * numCols     *)
(* calls below main's call.  Every step of a run moves some call forward    *)
(* in its code and leaves the calls below it where they are, no call's      *)
(* loop position goes past 2 * numRows * numCols, and a run that has not    *)
(* ended can take a step: so no run goes on for ever.                       *)

DepthBounded == Len(stack) <= numRows * numCols + 1

CallMade == stack # <<>> /\ Len(stack') = Len(stack) + 1

OneMoreTile ==
  Cardinality(NonEmptyCells(Top'.grid)) = Cardinality(NonEmptyCells(Top.grid)) + 1

\* how far a call has got: before its first statement, at loop position k,
\* inside the recursive call made at loop position k, returned
Position(f) ==
  CASE f.pc = "entry" -> 0
    [] f.pc = "loop" -> 2 * f.k + 1
    [] f.pc = "wait" -> 2 * f.k + 2
    [] f.pc = "ret" -> 2 * f.k + 2

PositionBounded ==
  \A n \in 1 .. Len(stack) : stack[n].k <= 2 * (numRows * numCols)

\* some call moves forward and every call below it stays where it is; a
\* call that is new on the stack counts as moved
MovesForward ==
  \E n \in 1 .. Len(stack') :
    /\ \A m \in 1 .. n - 1 : m <= Len(stack) /\ Position(stack'[m]) = Position(stack[m])
    /\ n <= Len(stack) => Position(stack'[n]) > Position(stack[n])

RunEnded == run.status \in {"done", "crashed"}

\* a run that has not ended is at a statement from which the code goes on
CanStep == stack # <<>> /\ Top.pc \in {"entry", "loop", "ret"}

C37_SearchTerminates ==
  /\ [](DepthBounded /\ PositionBounded /\ (RunEnded \/ CanStep))
  /\ [][/\ CallMade => OneMoreTile
        /\ RunEnded' \/ MovesForward]_vars

\* the deepest call: numRows * numCols calls below main's call, on a grid
\* without Empty tiles
C37_Witness ==
  /\ numRows * numCols = 4
  /\ Len(stack) = numRows * numCols + 1
  /\ NoEmptyTile(Top.grid)
  /\ \A n \in 1 .. Len(stack) : Cardinality(NonEmptyCells(stack[n].grid)) = n - 1

----------------------------------------------------------------------------
(* C38: remove_terrain on a cell inside the grid that is already Empty      *)
(* leaves the whole grid as it is: tiles, counters, numFilledTiles, full    *)
(* and the river fields.  So a second remove_terrain of the same cell       *)
(* changes nothing more, in every grid add_land, add_river and              *)
(* remove_terrain can reach.                                                *)

RemovedFromEmpty ==
  lastOp.op = "remove" /\ TypeAt(pre, lastOp.idx) = LHO_EMPTY

C38_RemoveTerrainIdempotent ==
  /\ RemovedFromEmpty => g = pre
  /\ \A i \in Indices :
       /\ TypeAt(g, i) = LHO_EMPTY => remove_terrain(i, g) = g
       /\ remove_terrain(i, remove_terrain(i, g)) = remove_terrain(i, g)

\* remove_terrain has run on an Empty cell of a grid that has a river and a
\* Landscape tile
C38_Witness ==
  /\ RemovedFromEmpty
  /\ g = pre
  /\ RiverCells(g) # {}
  /\ NonEmptyCells(g) # RiverCells(g)
  /\ g.numFilledTiles = 2

====
